---- MODULE Spec2Model ----
(***************************************************************************)
(* State-machine model of the MCP installer CLI:                           *)
(*   - installServerForClient (src/src/commands/installServerForClient.ts) *)
(*   - the runtime helpers of src/src/utils/runtime.ts: isUVRequired,      *)
(*     isBunRequired, ensureUVInstalled, ensureBunInstalled, isRemote,     *)
(*     checkAndNotifyRemoteServer, ensureApiKey.                           *)
(* Every asynchronous function is modelled as a program counter that moves *)
(* from one await to the next; the outcome of each external call (a shell  *)
(* command, a prompt, a file read or write) is chosen nondeterministically *)
(* at the step that waits for it.                                          *)
(***************************************************************************)
EXTENDS Naturals, Sequences, FiniteSets, TLC

VARIABLES
    \* ---- installServerForClient ----
    disk,          \* client -> the configuration document persisted for it
    ipc,           \* position of the running installServerForClient call
    iargs,         \* its parameters {client, qualifiedName, serverConfig}
    config,        \* its local `config` (the document read, then mutated)
    configRead,    \* history: the document exactly as readConfig returned it
    ilog,          \* history: the steps the call has completed, in order
    installs,      \* number of calls started so far
    lastInstalled, \* history: client -> name -> serverConfig of the latest write
    \* ---- ensureUVInstalled / ensureBunInstalled ----
    conn,          \* the connection passed to the call
    platform,      \* process.platform
    rfn,           \* which of the two functions is being run
    rpc,           \* its position
    required,      \* what isUVRequired / isBunRequired returned to it
    rlog,          \* history: commands run, prompts answered, messages printed
    rret,          \* what promptFor*Install returned
    \* ---- isRemote / checkAndNotifyRemoteServer ----
    server,        \* the server passed to the call
    mpc,           \* position: "start" before the call, "done" after it
    mfn,           \* which of the two functions was called
    mret,          \* what it returned
    mnotice,       \* whether the security notice was printed
    \* ---- ensureApiKey ----
    apiKey,        \* the command-line key passed to the call (or undefined)
    savedKey,      \* the key saved in the local config (or undefined)
    savedAtStart,  \* history: the saved key when the call started
    kpc,           \* position of the call
    kret,          \* what it returned
    kprompted,     \* history: whether the user was prompted
    promptedApiKey,\* the key the prompt returned
    ksets,         \* history: the keys passed to setApiKey, in order
    kwarned,       \* whether the could-not-save warning was printed
    \* ---- two installServerForClient calls in one process ----
    running,       \* the call that holds the thread, or "none" between turns
    cpc,           \* call -> its position
    cargs,         \* call -> its parameters
    cconfig,       \* call -> its local `config`
    cevents        \* history: the writes and returns of the calls, in order

installVars == <<disk, ipc, iargs, config, configRead, ilog, installs, lastInstalled>>

runtimeVars == <<conn, platform, rfn, rpc, required, rlog, rret>>

remoteVars == <<server, mpc, mfn, mret, mnotice>>

apiKeyVars == <<apiKey, savedKey, savedAtStart, kpc, kret, kprompted,
                promptedApiKey, ksets, kwarned>>

concurrentVars == <<running, cpc, cargs, cconfig, cevents>>

vars == <<installVars, runtimeVars, remoteVars, apiKeyVars, concurrentVars>>

\* What the operations of one group leave alone.
notInstallVars == <<runtimeVars, remoteVars, apiKeyVars, concurrentVars>>

notRuntimeVars == <<installVars, remoteVars, apiKeyVars, concurrentVars>>

notRemoteVars == <<installVars, runtimeVars, apiKeyVars, concurrentVars>>

notApiKeyVars == <<installVars, runtimeVars, remoteVars, concurrentVars>>

\* The concurrent calls share the client files (disk) with the single call.
notConcurrentVars ==
    <<ipc, iargs, config, configRead, ilog, installs, lastInstalled,
      runtimeVars, remoteVars, apiKeyVars>>

(***************************************************************************)
(* Bounds                                                                  *)
(***************************************************************************)
MaxInstalls == 2

MaxStrLen == 4

MaxConns == 2

MaxKeyLen == 2

(***************************************************************************)
(* installServerForClient                                                  *)
(***************************************************************************)
Clients == {"claude", "cline"}

QualifiedNames == {"@smithery/fetch", "fetch", "amap-sse"}

\* Server launch configs: loosely typed records (command/args/env or a url).
ServerConfigs ==
    { [command |-> "npx", args |-> "amap-maps-mcp-server"],
      [url |-> "http://localhost:3000/sse"],
      [command |-> "uvx", env |-> "AMAP_MAPS_API_KEY"] }

\* The normalized server name under which a qualified name is stored:
\* the namespace prefix "@owner/" is dropped.
getServerName(qualifiedName) ==
    IF qualifiedName = "@smithery/fetch" THEN "fetch" ELSE qualifiedName

ServerNames == { getServerName(q) : q \in QualifiedNames }

\* All mcpServers maps: a function from some set of names to launch configs.
ServerMaps == UNION { [D -> ServerConfigs] : D \in SUBSET ServerNames }

EmptyMap == [n \in {} |-> [url |-> ""]]

NoConfig == [none |-> TRUE]

NoArgs == [none |-> TRUE]

\* readConfig(client): the document persisted for the client.
readConfig(client) == disk[client]

\* writeConfig(config, client): the document replaces the client's file.
writeConfig(cfg, client) == [disk EXCEPT ![client] = cfg]

\* A buggy variant of the key assignment: it merges the new config into the
\* entry already stored under the name instead of replacing the entry.
AssignKeyMerging(cfg, serverName, serverConfig) ==
    [cfg EXCEPT !.mcpServers =
        [k \in (DOMAIN @) \cup {serverName} |->
            IF k = serverName
            THEN IF k \in DOMAIN @ THEN serverConfig @@ @[k] ELSE serverConfig
            ELSE @[k]]]

\* A buggy variant of the key assignment: the map is rebuilt with the new
\* entry alone.
AssignKeyDropping(cfg, serverName, serverConfig) ==
    [cfg EXCEPT !.mcpServers = [k \in {serverName} |-> serverConfig]]

\* config.mcpServers[serverName] = serverConfig
AssignKey(cfg, serverName, serverConfig) ==
    [cfg EXCEPT !.mcpServers =
        [k \in (DOMAIN @) \cup {serverName} |->
            IF k = serverName THEN serverConfig ELSE @[k]]]

\* A caller invokes installServerForClient({client, qualifiedName, serverConfig}).
InstallCall ==
    /\ ipc \in {"idle", "done", "thrown"}
    /\ installs < MaxInstalls
    /\ \E c \in Clients, q \in QualifiedNames, sc \in ServerConfigs :
          iargs' = [client |-> c, qualifiedName |-> q, serverConfig |-> sc]
    /\ ipc' = "readConfig"
    /\ installs' = installs + 1
    /\ config' = NoConfig
    /\ configRead' = NoConfig
    /\ ilog' = <<>>
    /\ UNCHANGED <<disk, lastInstalled>>
    /\ UNCHANGED notInstallVars

\* const config = readConfig(client); a failing read throws out of the call.
InstallReadConfig ==
    /\ ipc = "readConfig"
    /\ \E ok \in BOOLEAN :
          IF ok
          THEN /\ config' = readConfig(iargs.client)
               /\ configRead' = readConfig(iargs.client)
               /\ ilog' = Append(ilog, "readConfig")
               /\ ipc' = "assign"
          ELSE /\ ipc' = "thrown"
               /\ UNCHANGED <<config, configRead, ilog>>
    /\ UNCHANGED <<disk, iargs, installs, lastInstalled>>
    /\ UNCHANGED notInstallVars

\* const serverName = getServerName(qualifiedName)
\* config.mcpServers[serverName] = serverConfig
InstallAssign ==
    /\ ipc = "assign"
    /\ config' = AssignKey(config, getServerName(iargs.qualifiedName),
                           iargs.serverConfig)
    /\ ilog' = Append(ilog, "assign")
    /\ ipc' = "writeConfig"
    /\ UNCHANGED <<disk, iargs, configRead, installs, lastInstalled>>
    /\ UNCHANGED notInstallVars

\* The step that follows a writeConfig that returned.
AfterWriteSkipping == "promptForRestart"

AfterWrite == "printSuccess"

\* writeConfig(config, client); a failing write throws out of the call.
InstallWriteConfig ==
    /\ ipc = "writeConfig"
    /\ \E ok \in BOOLEAN :
          IF ok
          THEN /\ disk' = writeConfig(config, iargs.client)
               /\ lastInstalled' =
                    [lastInstalled EXCEPT ![iargs.client] =
                        [k \in (DOMAIN @) \cup {getServerName(iargs.qualifiedName)} |->
                            IF k = getServerName(iargs.qualifiedName)
                            THEN iargs.serverConfig ELSE @[k]]]
               /\ ilog' = Append(ilog, "writeConfig")
               /\ ipc' = AfterWrite
          ELSE /\ ipc' = "thrown"
               /\ UNCHANGED <<disk, lastInstalled, ilog>>
    /\ UNCHANGED <<iargs, config, configRead, installs>>
    /\ UNCHANGED notInstallVars

\* console.log(chalk.green(`${qualifiedName} successfully installed for ${client}`))
InstallPrintSuccess ==
    /\ ipc = "printSuccess"
    /\ ilog' = Append(ilog, "printSuccess")
    /\ ipc' = "promptForRestart"
    /\ UNCHANGED <<disk, iargs, config, configRead, installs, lastInstalled>>
    /\ UNCHANGED notInstallVars

\* await promptForRestart(client), then the call returns.
InstallPromptForRestart ==
    /\ ipc = "promptForRestart"
    /\ ilog' = Append(ilog, "promptForRestart")
    /\ ipc' = "done"
    /\ UNCHANGED <<disk, iargs, config, configRead, installs, lastInstalled>>
    /\ UNCHANGED notInstallVars

InstallInit ==
    /\ disk \in [Clients -> [mcpServers : ServerMaps]]
    /\ ipc = "idle"
    /\ iargs = NoArgs
    /\ config = NoConfig
    /\ configRead = NoConfig
    /\ ilog = <<>>
    /\ installs = 0
    /\ lastInstalled = [c \in Clients |-> EmptyMap]

InstallNext ==
    \/ InstallCall
    \/ InstallReadConfig
    \/ InstallAssign
    \/ InstallWriteConfig
    \/ InstallPrintSuccess
    \/ InstallPromptForRestart

(***************************************************************************)
(* Strings and connections (runtime.ts)                                    *)
(***************************************************************************)
\* A string is a sequence of one-character strings over Alphabet.
Alphabet == {"b", "u", "n", "v", "x"}

Strings == UNION { [1..k -> Alphabet] : k \in 0..MaxStrLen }

UVX == <<"u", "v", "x">>

BUNX == <<"b", "u", "n", "x">>

ConnectionTypes == {"stdio", "http", "ws"}

\* ConnectionInfo as the runtime checks read it: a type and an optional
\* stdioFunction (the launch command).
RuntimeConnections ==
    { [type |-> t] : t \in ConnectionTypes }
    \cup { [type |-> t, stdioFunction |-> s] : t \in ConnectionTypes, s \in Strings }

Platforms == {"win32", "linux", "darwin"}

\* Whether `sub` occurs in `s` at position i.
MatchesAt(s, sub, i) ==
    /\ i + Len(sub) - 1 <= Len(s)
    /\ \A j \in 1..Len(sub) : s[i + j - 1] = sub[j]

\* A buggy variant of the substring test: only the start of the string is looked at.
includesFromStartOnly(s, sub, i) == MatchesAt(s, sub, i)

\* String.prototype.includes: scan the positions from left to right.
RECURSIVE includesFrom(_, _, _)
includesFrom(s, sub, i) ==
    IF i + Len(sub) - 1 > Len(s) THEN FALSE
    ELSE IF MatchesAt(s, sub, i) THEN TRUE
    ELSE includesFrom(s, sub, i + 1)

includes(s, sub) == includesFrom(s, sub, 1)

\* connection.stdioFunction?.includes(sub): undefined (falsy) when the
\* connection has no stdioFunction.
stdioFunctionIncludes(connection, sub) ==
    IF "stdioFunction" \in DOMAIN connection
    THEN includes(connection.stdioFunction, sub)
    ELSE FALSE

isUVRequired(connection) ==
    IF connection.type = "stdio" /\ stdioFunctionIncludes(connection, UVX)
    THEN TRUE
    ELSE FALSE

isBunRequired(connection) ==
    IF connection.type = "stdio" /\ stdioFunctionIncludes(connection, BUNX)
    THEN TRUE
    ELSE FALSE

(***************************************************************************)
(* ensureUVInstalled / ensureBunInstalled                                  *)
(***************************************************************************)
Ev(e, ok) == [ev |-> e, ok |-> ok]

BoolStr(b) == IF b THEN "true" ELSE "false"

\* What the catch around the version check does with a failed command.
checkInstalledCatch == "returnFalse"

\* A buggy variant: the failure of the last installer is not caught.
promptForUVInstallCatchMissing == "rethrow"

\* What the outer catch of promptForUVInstall does with a failed installer.
promptForUVInstallCatch == "returnFalse"

\* What the outer catch of promptForBunInstall does with a failed installer.
promptForBunInstallCatch == "returnFalse"

\* if (!installed) console.warn("... The server might fail to launch.")
launchWarningNeeded(installed) == ~installed

\* promptFor*Install has returned `installed` to ensure*Installed, which
\* warns when nothing was installed and then returns.
EnsureReturn(log, installed) ==
    /\ rret' = BoolStr(installed)
    /\ rlog' = IF launchWarningNeeded(installed)
               THEN Append(log, Ev("warn: might fail to launch", TRUE))
               ELSE log
    /\ rpc' = "done"

\* if (isUVRequired(connection)) { ... } / if (isBunRequired(connection)) { ... }
ensureChecks(isRequired) == isRequired

\* ensureUVInstalled(connection), up to its first await.
EnsureUVInstalled ==
    /\ rfn = "ensureUVInstalled" /\ rpc = "start"
    /\ required' = BoolStr(isUVRequired(conn))
    /\ rpc' = IF ensureChecks(isUVRequired(conn)) THEN "checkUVInstalled" ELSE "done"
    /\ UNCHANGED <<conn, platform, rfn, rlog, rret>>
    /\ UNCHANGED notRuntimeVars

\* checkUVInstalled(): `uvx --version` succeeds or fails.
CheckUVInstalled ==
    /\ rpc = "checkUVInstalled"
    /\ \E ok \in BOOLEAN :
          /\ rlog' = Append(rlog, Ev("uvx --version", ok))
          /\ rpc' = IF ok THEN "done"
                    ELSE IF checkInstalledCatch = "returnFalse"
                         THEN "promptForUVInstall" ELSE "thrown"
    /\ UNCHANGED <<conn, platform, rfn, required, rret>>
    /\ UNCHANGED notRuntimeVars

\* A buggy variant: the installer is started whatever the user answered.
proceedsWithInstallAlways(shouldInstall) == TRUE

\* if (!shouldInstall) { warn; return false }
proceedsWithInstall(shouldInstall) == shouldInstall

\* promptForUVInstall(): the confirm prompt and what follows it up to the
\* next await.
PromptForUVInstall ==
    /\ rpc = "promptForUVInstall"
    /\ \E shouldInstall \in BOOLEAN :
          IF proceedsWithInstall(shouldInstall)
          THEN /\ rlog' = Append(rlog, Ev("prompt", shouldInstall))
               /\ rpc' = IF platform = "win32" THEN "uvPowershell" ELSE "uvCurl"
               /\ UNCHANGED rret
          ELSE EnsureReturn(
                  Append(Append(rlog, Ev("prompt", shouldInstall)),
                         Ev("warn: installation was declined", TRUE)),
                  FALSE)
    /\ UNCHANGED <<conn, platform, rfn, required>>
    /\ UNCHANGED notRuntimeVars

\* win32: the PowerShell installer.
UVPowershell ==
    /\ rpc = "uvPowershell"
    /\ \E ok \in BOOLEAN :
          IF ok
          THEN EnsureReturn(Append(rlog, Ev("uv powershell", ok)), TRUE)
          ELSE IF promptForUVInstallCatch = "returnFalse"
               THEN EnsureReturn(Append(rlog, Ev("uv powershell", ok)), FALSE)
               ELSE /\ rpc' = "thrown"
                    /\ rlog' = Append(rlog, Ev("uv powershell", ok))
                    /\ UNCHANGED rret
    /\ UNCHANGED <<conn, platform, rfn, required>>
    /\ UNCHANGED notRuntimeVars

\* A buggy variant: the fallback installer runs after the primary whatever it did.
fallbackNeededAlways(primaryOk) == TRUE

\* try { primary } catch { fallback }
fallbackNeeded(primaryOk) == ~primaryOk

\* other platforms: the curl installer; the inner catch goes on to wget.
UVCurl ==
    /\ rpc = "uvCurl"
    /\ \E ok \in BOOLEAN :
          IF fallbackNeeded(ok)
          THEN /\ rlog' = Append(rlog, Ev("uv curl", ok))
               /\ rpc' = "uvWget"
               /\ UNCHANGED rret
          ELSE EnsureReturn(Append(rlog, Ev("uv curl", ok)), TRUE)
    /\ UNCHANGED <<conn, platform, rfn, required>>
    /\ UNCHANGED notRuntimeVars

\* the wget installer, run from the inner catch.
UVWget ==
    /\ rpc = "uvWget"
    /\ \E ok \in BOOLEAN :
          IF ok
          THEN EnsureReturn(Append(rlog, Ev("uv wget", ok)), TRUE)
          ELSE IF promptForUVInstallCatch = "returnFalse"
               THEN EnsureReturn(Append(rlog, Ev("uv wget", ok)), FALSE)
               ELSE /\ rpc' = "thrown"
                    /\ rlog' = Append(rlog, Ev("uv wget", ok))
                    /\ UNCHANGED rret
    /\ UNCHANGED <<conn, platform, rfn, required>>
    /\ UNCHANGED notRuntimeVars

\* ensureBunInstalled(connection), up to its first await.
EnsureBunInstalled ==
    /\ rfn = "ensureBunInstalled" /\ rpc = "start"
    /\ required' = BoolStr(isBunRequired(conn))
    /\ rpc' = IF ensureChecks(isBunRequired(conn)) THEN "checkBunInstalled" ELSE "done"
    /\ UNCHANGED <<conn, platform, rfn, rlog, rret>>
    /\ UNCHANGED notRuntimeVars

\* checkBunInstalled(): `bun --version` succeeds or fails.
CheckBunInstalled ==
    /\ rpc = "checkBunInstalled"
    /\ \E ok \in BOOLEAN :
          /\ rlog' = Append(rlog, Ev("bun --version", ok))
          /\ rpc' = IF ok THEN "done"
                    ELSE IF checkInstalledCatch = "returnFalse"
                         THEN "promptForBunInstall" ELSE "thrown"
    /\ UNCHANGED <<conn, platform, rfn, required, rret>>
    /\ UNCHANGED notRuntimeVars

\* promptForBunInstall(): the confirm prompt and what follows it up to the
\* next await.
PromptForBunInstall ==
    /\ rpc = "promptForBunInstall"
    /\ \E shouldInstall \in BOOLEAN :
          IF proceedsWithInstall(shouldInstall)
          THEN /\ rlog' = Append(rlog, Ev("prompt", shouldInstall))
               /\ rpc' = IF platform = "win32" THEN "bunPowershell" ELSE "bunBrew"
               /\ UNCHANGED rret
          ELSE EnsureReturn(
                  Append(Append(rlog, Ev("prompt", shouldInstall)),
                         Ev("warn: installation was declined", TRUE)),
                  FALSE)
    /\ UNCHANGED <<conn, platform, rfn, required>>
    /\ UNCHANGED notRuntimeVars

\* win32: the PowerShell installer.
BunPowershell ==
    /\ rpc = "bunPowershell"
    /\ \E ok \in BOOLEAN :
          IF ok
          THEN EnsureReturn(Append(rlog, Ev("bun powershell", ok)), TRUE)
          ELSE IF promptForBunInstallCatch = "returnFalse"
               THEN EnsureReturn(Append(rlog, Ev("bun powershell", ok)), FALSE)
               ELSE /\ rpc' = "thrown"
                    /\ rlog' = Append(rlog, Ev("bun powershell", ok))
                    /\ UNCHANGED rret
    /\ UNCHANGED <<conn, platform, rfn, required>>
    /\ UNCHANGED notRuntimeVars

\* other platforms: Homebrew; the inner catch goes on to the curl installer.
BunBrew ==
    /\ rpc = "bunBrew"
    /\ \E ok \in BOOLEAN :
          IF fallbackNeeded(ok)
          THEN /\ rlog' = Append(rlog, Ev("bun brew", ok))
               /\ rpc' = "bunCurl"
               /\ UNCHANGED rret
          ELSE EnsureReturn(Append(rlog, Ev("bun brew", ok)), TRUE)
    /\ UNCHANGED <<conn, platform, rfn, required>>
    /\ UNCHANGED notRuntimeVars

\* the curl installer, run from the inner catch.
BunCurl ==
    /\ rpc = "bunCurl"
    /\ \E ok \in BOOLEAN :
          IF ok
          THEN EnsureReturn(Append(rlog, Ev("bun curl", ok)), TRUE)
          ELSE IF promptForBunInstallCatch = "returnFalse"
               THEN EnsureReturn(Append(rlog, Ev("bun curl", ok)), FALSE)
               ELSE /\ rpc' = "thrown"
                    /\ rlog' = Append(rlog, Ev("bun curl", ok))
                    /\ UNCHANGED rret
    /\ UNCHANGED <<conn, platform, rfn, required>>
    /\ UNCHANGED notRuntimeVars

RuntimeInit ==
    /\ conn \in RuntimeConnections
    /\ platform \in Platforms
    /\ rfn \in {"ensureUVInstalled", "ensureBunInstalled"}
    /\ rpc = "start"
    /\ required = "unset"
    /\ rlog = <<>>
    /\ rret = "none"

RuntimeNext ==
    \/ EnsureUVInstalled
    \/ CheckUVInstalled
    \/ PromptForUVInstall
    \/ UVPowershell
    \/ UVCurl
    \/ UVWget
    \/ EnsureBunInstalled
    \/ CheckBunInstalled
    \/ PromptForBunInstall
    \/ BunPowershell
    \/ BunBrew
    \/ BunCurl

(***************************************************************************)
(* isRemote / checkAndNotifyRemoteServer                                   *)
(***************************************************************************)
\* ConnectionInfo as isRemote reads it: a type and an optional deploymentUrl.
RemoteConnections ==
    { [type |-> t] : t \in ConnectionTypes }
    \cup { [type |-> t, deploymentUrl |-> "https://server.smithery.ai/mcp"] :
             t \in ConnectionTypes }

ConnectionLists == UNION { [1..k -> RemoteConnections] : k \in 0..MaxConns }

\* { connections: ConnectionInfo[]; remote?: boolean }
Servers ==
    { [connections |-> cs] : cs \in ConnectionLists }
    \cup { [connections |-> cs, remote |-> r] : cs \in ConnectionLists, r \in BOOLEAN }

\* (conn) => conn.type === "http" && "deploymentUrl" in conn
isHttpWithDeploymentUrl(c) ==
    c.type = "http" /\ "deploymentUrl" \in DOMAIN c

\* Array.prototype.some with that callback: the first match ends the scan.
RECURSIVE someFrom(_, _)
someFrom(connections, i) ==
    IF i > Len(connections) THEN FALSE
    ELSE IF isHttpWithDeploymentUrl(connections[i]) THEN TRUE
    ELSE someFrom(connections, i + 1)

\* A buggy variant of the flag test: an absent flag counts as false.
remoteNotFalseStrict(s) ==
    IF "remote" \in DOMAIN s THEN s.remote = TRUE ELSE FALSE

\* server.remote !== false
remoteNotFalse(s) ==
    IF "remote" \in DOMAIN s THEN s.remote # FALSE ELSE TRUE

isRemote(s) == someFrom(s.connections, 1) /\ remoteNotFalse(s)

\* A caller asks isRemote(server).
IsRemoteCall ==
    /\ mpc = "start"
    /\ mfn' = "isRemote"
    /\ mret' = BoolStr(isRemote(server))
    /\ mpc' = "done"
    /\ UNCHANGED <<server, mnotice>>
    /\ UNCHANGED notRemoteVars

\* checkAndNotifyRemoteServer(server): the notice is printed for a remote server.
CheckAndNotifyRemoteServer ==
    /\ mpc = "start"
    /\ mfn' = "checkAndNotifyRemoteServer"
    /\ LET remote == isRemote(server)
       IN  /\ mnotice' = IF remote THEN TRUE ELSE mnotice
           /\ mret' = BoolStr(remote)
    /\ mpc' = "done"
    /\ UNCHANGED server
    /\ UNCHANGED notRemoteVars

RemoteInit ==
    /\ server \in Servers
    /\ mpc = "start"
    /\ mfn = "none"
    /\ mret = "none"
    /\ mnotice = FALSE

RemoteNext ==
    \/ IsRemoteCall
    \/ CheckAndNotifyRemoteServer

(***************************************************************************)
(* ensureApiKey                                                            *)
(***************************************************************************)
KeyAlphabet == {" ", "k"}

KeyStrings == UNION { [1..k -> KeyAlphabet] : k \in 0..MaxKeyLen }

\* The value `undefined`, kept apart from every string.
Undefined == <<"undefined">>

OptionalKeys == {Undefined} \cup KeyStrings

\* JavaScript truthiness of a string | undefined: the empty string is falsy.
Truthy(s) == s # Undefined /\ s # <<>>

\* String.prototype.trim
RECURSIVE trimStart(_)
trimStart(s) ==
    IF s # <<>> /\ Head(s) = " " THEN trimStart(Tail(s)) ELSE s

RECURSIVE trimEnd(_)
trimEnd(s) ==
    IF s # <<>> /\ s[Len(s)] = " " THEN trimEnd(SubSeq(s, 1, Len(s) - 1)) ELSE s

trim(s) == trimEnd(trimStart(s))

\* validate: (input) => !input.trim() ? "API key is required" : true
validate(input) == trim(input) # <<>>

\* getApiKey(): the key saved in the local config, if any.
getApiKey == savedKey

\* A buggy variant of the first step: the saved key is consulted before the
\* command-line key.
EnsureApiKeySavedFirst ==
    /\ kpc = "start"
    /\ kpc' = "getApiKey"
    /\ UNCHANGED <<apiKey, savedKey, savedAtStart, kret, kprompted,
                   promptedApiKey, ksets, kwarned>>
    /\ UNCHANGED notApiKeyVars

\* ensureApiKey(apiKey): if (apiKey) return apiKey
EnsureApiKey ==
    /\ kpc = "start"
    /\ IF Truthy(apiKey)
       THEN /\ kret' = apiKey
            /\ kpc' = "done"
       ELSE /\ kpc' = "getApiKey"
            /\ UNCHANGED kret
    /\ UNCHANGED <<apiKey, savedKey, savedAtStart, kprompted,
                   promptedApiKey, ksets, kwarned>>
    /\ UNCHANGED notApiKeyVars

\* const savedApiKey = await getApiKey(); if (savedApiKey) return savedApiKey
EnsureApiKeyGetSaved ==
    /\ kpc = "getApiKey"
    /\ IF Truthy(getApiKey)
       THEN /\ kret' = getApiKey
            /\ kpc' = "done"
       ELSE /\ kpc' = "promptForApiKey"
            /\ UNCHANGED kret
    /\ UNCHANGED <<apiKey, savedKey, savedAtStart, kprompted,
                   promptedApiKey, ksets, kwarned>>
    /\ UNCHANGED notApiKeyVars

\* promptForApiKey(): the password prompt is answered; an answer that fails
\* validation leaves the prompt open.
PromptForApiKey ==
    /\ kpc = "promptForApiKey"
    /\ kprompted' = TRUE
    /\ \E input \in KeyStrings :
          IF validate(input)
          THEN /\ promptedApiKey' = input
               /\ kpc' = "setApiKey"
          ELSE UNCHANGED <<promptedApiKey, kpc>>
    /\ UNCHANGED <<apiKey, savedKey, savedAtStart, kret, ksets, kwarned>>
    /\ UNCHANGED notApiKeyVars

\* A buggy variant: the saved result is returned, which is undefined when the
\* save failed.
returnedAfterSaveOnlyIfSaved(prompted, success) ==
    IF success THEN prompted ELSE Undefined

\* return promptedApiKey
returnedAfterSave(prompted, success) == prompted

\* const saveResult = await setApiKey(promptedApiKey); a failed save only warns.
EnsureApiKeySave ==
    /\ kpc = "setApiKey"
    /\ \E success \in BOOLEAN :
          /\ savedKey' = IF success THEN promptedApiKey ELSE savedKey
          /\ kwarned' = ~success
          /\ kret' = returnedAfterSave(promptedApiKey, success)
    /\ ksets' = Append(ksets, promptedApiKey)
    /\ kpc' = "done"
    /\ UNCHANGED <<apiKey, savedAtStart, kprompted, promptedApiKey>>
    /\ UNCHANGED notApiKeyVars

ApiKeyInit ==
    /\ apiKey \in OptionalKeys
    /\ savedKey \in OptionalKeys
    /\ savedAtStart = savedKey
    /\ kpc = "start"
    /\ kret = Undefined
    /\ kprompted = FALSE
    /\ promptedApiKey = Undefined
    /\ ksets = <<>>
    /\ kwarned = FALSE

ApiKeyNext ==
    \/ EnsureApiKey
    \/ EnsureApiKeyGetSaved
    \/ PromptForApiKey
    \/ EnsureApiKeySave

(***************************************************************************)
(* Two installServerForClient calls in one process. JavaScript runs a call *)
(* to its next await before any other call gets a turn: the call that      *)
(* holds the thread is `running`, and it gives the thread up only at an    *)
(* await or when it ends.                                                  *)
(***************************************************************************)
Calls == {"first", "second"}

\* Whether call p may take its next step: it holds the thread, or nobody does.
HasTurn(p) == running = p \/ running = "none"

\* A buggy variant: the read is awaited, so other calls run before the
\* assignment and the write.
readConfigIsAwaitPointAsync == TRUE

\* const config = readConfig(client): a plain call, the result is used at once.
readConfigIsAwaitPoint == FALSE

\* writeConfig(config, client): a plain call.
writeConfigIsAwaitPoint == FALSE

\* Who holds the thread after a step of call p.
ThreadAfter(p, isAwaitPoint) == IF isAwaitPoint THEN "none" ELSE p

ConcEvent(p, e) == [call |-> p, ev |-> e]

\* Call p is invoked and runs (verbose logging only) up to readConfig.
ConcInstallCall(p) ==
    /\ cpc[p] = "notStarted"
    /\ HasTurn(p)
    /\ cpc' = [cpc EXCEPT ![p] = "readConfig"]
    /\ running' = p
    /\ UNCHANGED <<disk, cargs, cconfig, cevents>>
    /\ UNCHANGED notConcurrentVars

\* const config = readConfig(client); a failing read throws out of the call.
ConcReadConfig(p) ==
    /\ cpc[p] = "readConfig"
    /\ HasTurn(p)
    /\ \E ok \in BOOLEAN :
          IF ok
          THEN /\ cconfig' = [cconfig EXCEPT ![p] = readConfig(cargs[p].client)]
               /\ cpc' = [cpc EXCEPT ![p] = "assign"]
               /\ running' = ThreadAfter(p, readConfigIsAwaitPoint)
          ELSE /\ cpc' = [cpc EXCEPT ![p] = "thrown"]
               /\ running' = "none"
               /\ UNCHANGED cconfig
    /\ UNCHANGED <<disk, cargs, cevents>>
    /\ UNCHANGED notConcurrentVars

\* config.mcpServers[getServerName(qualifiedName)] = serverConfig
ConcAssign(p) ==
    /\ cpc[p] = "assign"
    /\ HasTurn(p)
    /\ cconfig' = [cconfig EXCEPT ![p] =
                      AssignKey(@, getServerName(cargs[p].qualifiedName),
                                cargs[p].serverConfig)]
    /\ cpc' = [cpc EXCEPT ![p] = "writeConfig"]
    /\ running' = p
    /\ UNCHANGED <<disk, cargs, cevents>>
    /\ UNCHANGED notConcurrentVars

\* writeConfig(config, client); a failing write throws out of the call.
ConcWriteConfig(p) ==
    /\ cpc[p] = "writeConfig"
    /\ HasTurn(p)
    /\ \E ok \in BOOLEAN :
          IF ok
          THEN /\ disk' = writeConfig(cconfig[p], cargs[p].client)
               /\ cevents' = Append(cevents, ConcEvent(p, "write"))
               /\ cpc' = [cpc EXCEPT ![p] = "printSuccess"]
               /\ running' = ThreadAfter(p, writeConfigIsAwaitPoint)
          ELSE /\ cpc' = [cpc EXCEPT ![p] = "thrown"]
               /\ running' = "none"
               /\ UNCHANGED <<disk, cevents>>
    /\ UNCHANGED <<cargs, cconfig>>
    /\ UNCHANGED notConcurrentVars

\* console.log(success); then promptForRestart(client) is called and awaited:
\* the call gives up the thread.
ConcPrintSuccess(p) ==
    /\ cpc[p] = "printSuccess"
    /\ HasTurn(p)
    /\ cpc' = [cpc EXCEPT ![p] = "promptForRestart"]
    /\ running' = "none"
    /\ UNCHANGED <<disk, cargs, cconfig, cevents>>
    /\ UNCHANGED notConcurrentVars

\* The restart prompt is answered; the call resumes and returns.
ConcPromptForRestart(p) ==
    /\ cpc[p] = "promptForRestart"
    /\ HasTurn(p)
    /\ cpc' = [cpc EXCEPT ![p] = "done"]
    /\ cevents' = Append(cevents, ConcEvent(p, "return"))
    /\ running' = "none"
    /\ UNCHANGED <<disk, cargs, cconfig>>
    /\ UNCHANGED notConcurrentVars

InstallArgs ==
    [client : Clients, qualifiedName : QualifiedNames, serverConfig : ServerConfigs]

ConcurrentInit ==
    /\ disk \in { [c \in Clients |-> [mcpServers |-> m]] : m \in ServerMaps }
    /\ ipc = "idle"
    /\ iargs = NoArgs
    /\ config = NoConfig
    /\ configRead = NoConfig
    /\ ilog = <<>>
    /\ installs = 0
    /\ lastInstalled = [c \in Clients |-> EmptyMap]
    /\ running = "none"
    /\ cpc = [p \in Calls |-> "notStarted"]
    /\ cargs \in [Calls -> InstallArgs]
    /\ cconfig = [p \in Calls |-> NoConfig]
    /\ cevents = <<>>

ConcurrentNext ==
    \E p \in Calls :
        \/ ConcInstallCall(p)
        \/ ConcReadConfig(p)
        \/ ConcAssign(p)
        \/ ConcWriteConfig(p)
        \/ ConcPrintSuccess(p)
        \/ ConcPromptForRestart(p)

(***************************************************************************)
(* Specifications: one per group of operations; the other groups rest.     *)
(***************************************************************************)
InstallRest ==
    /\ disk = [c \in Clients |-> [mcpServers |-> EmptyMap]]
    /\ ipc = "idle"
    /\ iargs = NoArgs
    /\ config = NoConfig
    /\ configRead = NoConfig
    /\ ilog = <<>>
    /\ installs = 0
    /\ lastInstalled = [c \in Clients |-> EmptyMap]

RuntimeRest ==
    /\ conn = [type |-> "stdio"]
    /\ platform = "linux"
    /\ rfn = "none"
    /\ rpc = "rest"
    /\ required = "unset"
    /\ rlog = <<>>
    /\ rret = "none"

RemoteRest ==
    /\ server = [connections |-> <<>>]
    /\ mpc = "rest"
    /\ mfn = "none"
    /\ mret = "none"
    /\ mnotice = FALSE

ApiKeyRest ==
    /\ apiKey = Undefined
    /\ savedKey = Undefined
    /\ savedAtStart = Undefined
    /\ kpc = "rest"
    /\ kret = Undefined
    /\ kprompted = FALSE
    /\ promptedApiKey = Undefined
    /\ ksets = <<>>
    /\ kwarned = FALSE

ConcurrentRest ==
    /\ running = "none"
    /\ cpc = [p \in Calls |-> "rest"]
    /\ cargs = [p \in Calls |-> NoArgs]
    /\ cconfig = [p \in Calls |-> NoConfig]
    /\ cevents = <<>>

InitInstall == InstallInit /\ RuntimeRest /\ RemoteRest /\ ApiKeyRest /\ ConcurrentRest

InitRuntime == RuntimeInit /\ InstallRest /\ RemoteRest /\ ApiKeyRest /\ ConcurrentRest

InitRemote == RemoteInit /\ InstallRest /\ RuntimeRest /\ ApiKeyRest /\ ConcurrentRest

InitApiKey == ApiKeyInit /\ InstallRest /\ RuntimeRest /\ RemoteRest /\ ConcurrentRest

InitConcurrent == ConcurrentInit /\ RuntimeRest /\ RemoteRest /\ ApiKeyRest

SpecInstall == InitInstall /\ [][InstallNext]_vars

SpecRuntime == InitRuntime /\ [][RuntimeNext]_vars

SpecRemote == InitRemote /\ [][RemoteNext]_vars

SpecApiKey == InitApiKey /\ [][ApiKeyNext]_vars

SpecConcurrent == InitConcurrent /\ [][ConcurrentNext]_vars

(***************************************************************************)
(* Properties                                                              *)
(***************************************************************************)
InstallSteps ==
    <<"readConfig", "assign", "writeConfig", "printSuccess", "promptForRestart">>

IsPrefix(s, t) == Len(s) <= Len(t) /\ SubSeq(t, 1, Len(s)) = s

Written == ipc \in {"printSuccess", "promptForRestart", "done"}

\* C1: once installServerForClient has written the config, the document on
\* disk for that client has the key getServerName(qualifiedName), and every
\* other key is present exactly when it was present in the document read, with
\* the same value: no other key was added, removed or changed.
C1_InstallFrame ==
    Written =>
        LET name    == getServerName(iargs.qualifiedName)
            written == disk[iargs.client].mcpServers
            before  == configRead.mcpServers
        IN  /\ name \in DOMAIN written
            /\ \A k \in ((DOMAIN written) \cup (DOMAIN before)) \ {name} :
                  /\ k \in DOMAIN written
                  /\ k \in DOMAIN before
                  /\ written[k] = before[k]

\* A completed install that added a new key beside an existing one.
C1_Witness ==
    /\ ipc = "done"
    /\ getServerName(iargs.qualifiedName) \notin DOMAIN configRead.mcpServers
    /\ DOMAIN configRead.mcpServers # {}
    /\ DOMAIN disk[iargs.client].mcpServers = ServerNames

\* C2: after any sequence of installs, the entry stored under each
\* normalized name equals exactly the serverConfig of the most recent install
\* written under that name (no field of an earlier entry survives).
C2_LastWriteWins ==
    \A c \in Clients :
        \A n \in DOMAIN lastInstalled[c] :
            /\ n \in DOMAIN disk[c].mcpServers
            /\ disk[c].mcpServers[n] = lastInstalled[c][n]

\* A second install, under another qualified name that normalizes to the same
\* name, has replaced an entry whose fields differ from the new config's.
C2_Witness ==
    /\ ipc = "done"
    /\ installs = 2
    /\ iargs.qualifiedName = "@smithery/fetch"
    /\ "fetch" \in DOMAIN configRead.mcpServers
    /\ DOMAIN configRead.mcpServers["fetch"] # DOMAIN iargs.serverConfig
    /\ disk[iargs.client].mcpServers["fetch"] = iargs.serverConfig

\* C7: the steps of a call occur in the order read, assign, write, print
\* success, prompt for restart, each position of the call having done exactly
\* the steps before it; a call that returned did all five; a call that threw
\* did so at the read (nothing done) or at the write (read and assign done),
\* so no success message and no restart prompt follow a failure, and no write
\* follows a failed read.
C7_OrderAndPropagation ==
    /\ IsPrefix(ilog, InstallSteps)
    /\ ipc = "readConfig" => ilog = <<>>
    /\ ipc = "assign" => ilog = SubSeq(InstallSteps, 1, 1)
    /\ ipc = "writeConfig" => ilog = SubSeq(InstallSteps, 1, 2)
    /\ ipc = "printSuccess" => ilog = SubSeq(InstallSteps, 1, 3)
    /\ ipc = "promptForRestart" => ilog = SubSeq(InstallSteps, 1, 4)
    /\ ipc = "done" => ilog = InstallSteps
    /\ ipc = "thrown" => ilog \in {<<>>, SubSeq(InstallSteps, 1, 2)}

\* A call whose writeConfig threw.
C7_Witness ==
    /\ ipc = "thrown"
    /\ ilog = <<"readConfig", "assign">>

\* Whether `sub` occurs somewhere in `s`.
Occurs(s, sub) ==
    \E i \in 1..Len(s) :
        /\ i + Len(sub) - 1 <= Len(s)
        /\ SubSeq(s, i, i + Len(sub) - 1) = sub

\* A stdio connection whose launch command is present and contains `sub`.
StdioWith(c, sub) ==
    /\ c.type = "stdio"
    /\ "stdioFunction" \in DOMAIN c
    /\ Occurs(c.stdioFunction, sub)

RemoteExpected(s) ==
    /\ \E i \in 1..Len(s.connections) :
          /\ s.connections[i].type = "http"
          /\ "deploymentUrl" \in DOMAIN s.connections[i]
    /\ ~("remote" \in DOMAIN s /\ s.remote = FALSE)

\* C4: isRemote returns true exactly when some connection is an HTTP
\* connection carrying a deployment URL and remote is not explicitly false;
\* checkAndNotifyRemoteServer returns the same value and prints the notice
\* exactly when it is true.
C4_RemoteClassification ==
    mpc = "done" =>
        /\ mret = BoolStr(RemoteExpected(server))
        /\ mfn = "checkAndNotifyRemoteServer" => mnotice = RemoteExpected(server)
        /\ mfn = "isRemote" => ~mnotice

\* The notice was printed for a server with no remote flag whose second
\* connection is the HTTP one.
C4_Witness ==
    /\ mpc = "done"
    /\ mfn = "checkAndNotifyRemoteServer"
    /\ mnotice
    /\ "remote" \notin DOMAIN server
    /\ Len(server.connections) = 2
    /\ server.connections[1].type = "stdio"

\* The original statement of C5: whatever key is supplied (any string), the
\* call returns it, never prompts, never calls setApiKey, and leaves the
\* saved key as it was.
C5_AnySuppliedKeyUsed ==
    apiKey # Undefined =>
        /\ ~kprompted
        /\ ksets = <<>>
        /\ savedKey = savedAtStart
        /\ kpc = "done" => kret = apiKey

\* C5 (amended): when a non-empty key is supplied, the call returns it
\* unchanged without consulting the saved key, never prompts, never calls
\* setApiKey, and leaves the saved key as it was.
C5_SuppliedKeyUsed ==
    (apiKey # Undefined /\ apiKey # <<>>) =>
        /\ kpc \in {"start", "done"}
        /\ ~kprompted
        /\ ksets = <<>>
        /\ savedKey = savedAtStart
        /\ kpc = "done" => kret = apiKey

\* A supplied key was returned although another key is saved.
C5_Witness ==
    /\ kpc = "done"
    /\ apiKey = <<"k">>
    /\ savedAtStart = <<"k", "k">>
    /\ savedKey = <<"k", "k">>
    /\ kret = <<"k">>

IsInstallerCmd(e) ==
    e.ev \in {"uv powershell", "uv curl", "uv wget",
              "bun powershell", "bun brew", "bun curl"}

IsCheck(e) == e.ev \in {"uvx --version", "bun --version"}

IsLaunchWarning(e) == e.ev = "warn: might fail to launch"

Attempts == SelectSeq(rlog, IsInstallerCmd)

Needed ==
    IF rfn = "ensureUVInstalled" THEN StdioWith(conn, UVX) ELSE StdioWith(conn, BUNX)

CheckFailed == \E i \in 1..Len(rlog) : IsCheck(rlog[i]) /\ ~rlog[i].ok

Declined == \E i \in 1..Len(rlog) : rlog[i].ev = "prompt" /\ ~rlog[i].ok

Consented == \E i \in 1..Len(rlog) : rlog[i].ev = "prompt" /\ rlog[i].ok

LaunchWarned == \E i \in 1..Len(rlog) : IsLaunchWarning(rlog[i])

\* C6: ensureUVInstalled and ensureBunInstalled never raise, whatever the
\* version check, the user and the installers do; and when they have
\* returned, the might-fail-to-launch warning was printed exactly when the
\* runtime is required, the version check failed, and the install was
\* declined or every installer command that was attempted failed.
C6_PrerequisiteFailuresNonFatal ==
    /\ rpc # "thrown"
    /\ rpc = "done" =>
          (LaunchWarned <=>
              /\ Needed
              /\ CheckFailed
              /\ \/ Declined
                 \/ \A i \in 1..Len(Attempts) : ~Attempts[i].ok)

\* Both installers failed and the call still returned, with the warning.
C6_Witness ==
    /\ rpc = "done"
    /\ LaunchWarned
    /\ Len(Attempts) = 2
    /\ ~Attempts[1].ok /\ ~Attempts[2].ok

\* C8: the install prompt is shown only if the runtime is required and a
\* version check failed before it; an installer command runs only after a
\* yes to the prompt; when the runtime is not required nothing is checked,
\* prompted or installed; when the check succeeded nothing is prompted or
\* installed.
C8_NoInstallWithoutConsent ==
    /\ \A i \in 1..Len(rlog) :
          rlog[i].ev = "prompt" =>
              /\ Needed
              /\ \E j \in 1..(i - 1) : IsCheck(rlog[j]) /\ ~rlog[j].ok
    /\ \A i \in 1..Len(rlog) :
          IsInstallerCmd(rlog[i]) =>
              \E j \in 1..(i - 1) : rlog[j].ev = "prompt" /\ rlog[j].ok
    /\ ~Needed => rlog = <<>>
    /\ \A i \in 1..Len(rlog) :
          (IsCheck(rlog[i]) /\ rlog[i].ok) => Len(rlog) = 1

\* An installer ran, after a failed check and a yes.
C8_Witness ==
    /\ rpc = "done"
    /\ Len(rlog) >= 3
    /\ IsCheck(rlog[1]) /\ ~rlog[1].ok
    /\ rlog[2].ev = "prompt" /\ rlog[2].ok
    /\ IsInstallerCmd(rlog[3])

PowershellCmd == IF rfn = "ensureUVInstalled" THEN "uv powershell" ELSE "bun powershell"

PrimaryCmd == IF rfn = "ensureUVInstalled" THEN "uv curl" ELSE "bun brew"

FallbackCmd == IF rfn = "ensureUVInstalled" THEN "uv wget" ELSE "bun curl"

\* C9: after consent, win32 runs the single PowerShell command; other
\* platforms run the primary installer (curl for UV, Homebrew for Bun) first
\* and the fallback (wget for UV, curl for Bun) exactly when the primary
\* failed; no command is attempted twice; and promptFor*Install returns true
\* exactly when the last attempted command succeeded.
C9_InstallerFallback ==
    /\ \A i, j \in 1..Len(Attempts) : i # j => Attempts[i].ev # Attempts[j].ev
    /\ platform = "win32" =>
          \A i \in 1..Len(Attempts) : Attempts[i].ev = PowershellCmd
    /\ platform # "win32" =>
          /\ Len(Attempts) <= 2
          /\ Len(Attempts) >= 1 => Attempts[1].ev = PrimaryCmd
          /\ Len(Attempts) = 2 => Attempts[2].ev = FallbackCmd /\ ~Attempts[1].ok
    /\ (Consented /\ rpc = "done") =>
          /\ Len(Attempts) >= 1
          /\ rret = BoolStr(Attempts[Len(Attempts)].ok)
          /\ (platform # "win32" /\ ~Attempts[1].ok) => Len(Attempts) = 2

\* The primary installer failed, the fallback succeeded, true was returned.
C9_Witness ==
    /\ rpc = "done"
    /\ platform = "linux"
    /\ Len(Attempts) = 2
    /\ Attempts[2].ok
    /\ rret = "true"

\* The original statement of C10, every string passed on the command line
\* counting as a key that was given (a saved key counts as existing when it
\* is a non-empty string).
C10_PrecedenceAnyKey ==
    /\ kprompted => (apiKey = Undefined /\ ~Truthy(savedAtStart))
    /\ ksets # <<>> =>
          /\ apiKey = Undefined /\ ~Truthy(savedAtStart)
          /\ ksets = <<promptedApiKey>>
    /\ (kpc = "done" /\ kprompted) => kret = promptedApiKey
    /\ (kpc = "done" /\ apiKey = Undefined /\ Truthy(savedAtStart)) =>
          kret = savedAtStart /\ savedKey = savedAtStart

\* C10 (amended): a key counts as given, or as saved, only when it is a
\* non-empty string. The user is prompted only when no key was given and none
\* is saved; setApiKey is called only then, once, with exactly the prompted
\* key; the prompted key is returned whether or not the save succeeded, a
\* failed save leaving the saved key alone and printing the warning; when a
\* key is saved and none was given, the saved key is returned and unchanged.
C10_Precedence ==
    /\ kprompted => (~Truthy(apiKey) /\ ~Truthy(savedAtStart))
    /\ ksets # <<>> =>
          /\ ~Truthy(apiKey) /\ ~Truthy(savedAtStart)
          /\ ksets = <<promptedApiKey>>
    /\ (kpc = "done" /\ kprompted) =>
          /\ kret = promptedApiKey
          /\ ksets = <<promptedApiKey>>
          /\ savedKey = (IF kwarned THEN savedAtStart ELSE promptedApiKey)
    /\ (kpc = "done" /\ ~Truthy(apiKey) /\ Truthy(savedAtStart)) =>
          /\ kret = savedAtStart
          /\ savedKey = savedAtStart
          /\ ~kprompted

\* The user was prompted, the save failed, and the prompted key was returned.
C10_Witness ==
    /\ kpc = "done"
    /\ apiKey = Undefined
    /\ savedAtStart = Undefined
    /\ kprompted
    /\ kwarned
    /\ savedKey = Undefined
    /\ kret = <<"k", " ">>

\* Both calls have returned, they were for the same client, and their
\* qualified names normalize to different names.
BothInstalled ==
    /\ \A p \in Calls : cpc[p] = "done"
    /\ cargs["first"].client = cargs["second"].client
    /\ getServerName(cargs["first"].qualifiedName)
          # getServerName(cargs["second"].qualifiedName)

\* Call p is between its read and the end of its write.
MidUpdate(p) == cpc[p] \in {"assign", "writeConfig"}

\* C11: a call that has read the config holds the thread until it has
\* written it, so the two calls are never both between read and write; and
\* however the two calls for one client and different normalized names take
\* turns at their wait points, once both have returned the client's config
\* on disk holds both entries, each equal to the serverConfig of its call.
C11_NoLostUpdate ==
    /\ \A p \in Calls : MidUpdate(p) => running = p
    /\ BothInstalled =>
          \A p \in Calls :
              LET name == getServerName(cargs[p].qualifiedName)
                  m    == disk[cargs[p].client].mcpServers
              IN  /\ name \in DOMAIN m
                  /\ m[name] = cargs[p].serverConfig

\* The first call wrote and was still waiting at its restart prompt while the
\* second read, wrote and returned; neither name was on disk before.
C11_Witness ==
    /\ BothInstalled
    /\ cevents = << ConcEvent("first", "write"), ConcEvent("second", "write"),
                    ConcEvent("second", "return"), ConcEvent("first", "return") >>
    /\ cargs["first"].serverConfig # cargs["second"].serverConfig
    /\ DOMAIN disk[cargs["first"].client].mcpServers = ServerNames

====
